---- MODULE Spec2Model ----
(***************************************************************************)
(* Renderer / Scene subsystem (renderer.rs, scene.rs, model.rs, texture.rs)*)
(* the asset loaders (resources.rs, texture.rs) and the host event loop    *)
(* with its State (lib.rs).                                                *)
(*                                                                         *)
(* Rust vectors are 0-based, TLA+ sequences 1-based: a Rust index i names  *)
(* element i + 1 of the sequence.  A render call is one action; the GPU    *)
(* and window calls it makes are recorded, in issue order, in `ops`.       *)
(***************************************************************************)
EXTENDS Integers, Sequences, FiniteSets, TLC

VARIABLES
    window,     \* the winit window: inner size, pending events, redraw request
    surface,    \* the presentation surface: "ok", or "failing" its acquisitions
    renderer,   \* renderer.rs: struct Renderer
    scene,      \* scene.rs: struct Scene
    state,      \* lib.rs: App.state, <<>> for None and <<s>> for Some(s)
    loading,    \* lib.rs: the spawned State::new future of the web build
    exited,     \* event_loop.exit() was called
    last,       \* the operation or handler that ran last
    arg,        \* the camera or the name it was called with
    ops,        \* the GPU and window calls it issued, in order
    result,     \* the value render returned in it
    executed,   \* the draws the GPU ran for its submit
    ret,        \* the index add_model / add_material / get_material returned in it
    loaded,     \* the texture or model a loader returned in it, <<>> for none
    panicked    \* the process died on a panic

vars == <<window, surface, renderer, scene, state, loading, exited,
          last, arg, ops, result, executed, ret, loaded, panicked>>

(* ------------------------------ bounds --------------------------------- *)
MaxWidth == 1
MaxHeight == 1
MaxSize == 2
MaxMaterials == 2
MaxModels == 2
MaxMeshes == 2
MaxObjects == 2
MaxEye == 1
MaxImages == 6

Widths == 0..MaxWidth
Heights == 0..MaxHeight
MaterialNames == {"X", "Y"}
\* Model transforms are opaque 4x4 matrices: the identity and two placements.
Identity == "I"
Transforms == {"T1", "T2"}

\* usize::MAX (2^64 - 1) is written as its two's-complement residue.
UsizeMax == 0 - 1

SurfaceErrors == {"Lost", "Outdated", "Timeout", "OutOfMemory"}
AcquireOutcomes == {"Ok"} \cup SurfaceErrors

Max(a, b) == IF a >= b THEN a ELSE b

(* --------------------------- input domains ----------------------------- *)
\* Mesh k of a loaded model: index count 3k, material index k - 1.
MeshOf(k) == [name |-> "mesh", num_elements |-> 3 * k, material |-> k - 1]

ModelOf(n) == [meshes |-> [k \in 1..n |-> MeshOf(k)]]

Min(a, b) == IF a <= b THEN a ELSE b

\* The k-th model loaded into a scene has k meshes, MaxMeshes at most.
LoadedModel(sc) == ModelOf(Min(Len(sc.models) + 1, MaxMeshes))

InstancePool == [model_index : 0..(MaxModels - 1), transform : Transforms]

Cameras == [eye : 0..MaxEye, aspect : {<<1, 1>>}]

(* ------------------------------ texture.rs ------------------------------ *)
TextureTypes == {"Diffuse", "Normal", "Cubemap"}

\* depth_or_array_layers of a cubemap
CubemapLayers == 6

\* A texture layer no write_texture has touched.
Unwritten == 0

\* A decoded image: <<id, width, height>>.
ImageId(img) == img[1]

\* img.dimensions()
Dimensions(img) == <<img[2], img[3]>>

\* n decoded images of one size; image i is told apart by its id i.
ImagesOf(n, width, height) == [i \in 1..n |-> <<i, width, height>>]

ArrayLayers(ty) == IF ty = "Cubemap" THEN CubemapLayers ELSE 1

TextureFormat(ty) == IF ty = "Normal" THEN "Rgba8Unorm" ELSE "Rgba8UnormSrgb"

ViewDimension(ty) == IF ty = "Cubemap" THEN "Cube" ELSE "D2"

\* queue.write_texture with origin z = idx, one call per image
WriteTexture(imgs, i) ==
    [buf |-> "texture", mesh |-> 0, obj |-> 0, op |-> "write_texture",
     slot |-> i - 1, val |-> ImageId(imgs[i])]

\* What layer z holds after the writes: the image of the last write to it.
LayerAfter(writes, z) ==
    LET to == SelectSeq(writes, LAMBDA w : w.slot = z) IN
    IF to = <<>> THEN Unwritten ELSE to[Len(to)].val

\* from_images.  A write past the texture's layers is a wgpu validation
\* error: the default handler panics (native) or logs it and drops the
\* write (web), which `handler` chooses.
FromImagesOf(imgs, ty, handler) ==
    IF Len(imgs) = 0
    THEN [result |-> "panic", ops |-> <<>>, texture |-> <<>>]
    ELSE LET layers == ArrayLayers(ty)
             create == [buf |-> TextureFormat(ty), mesh |-> 0, obj |-> 0,
                        op |-> "create_texture", slot |-> layers,
                        val |-> Dimensions(imgs[1])]
             valid == [i \in 1..(IF Len(imgs) < layers THEN Len(imgs) ELSE layers) |->
                          WriteTexture(imgs, i)]
         IN
         IF Len(imgs) > layers /\ handler = "panic"
         THEN [result |-> "panic",
               ops |-> <<create>> \o valid \o <<WriteTexture(imgs, layers + 1)>>,
               texture |-> <<>>]
         ELSE LET writes == [i \in 1..Len(imgs) |-> WriteTexture(imgs, i)] IN
              [result |-> "Ok",
               ops |-> <<create>> \o writes,
               texture |-> << [format |-> TextureFormat(ty),
                               height |-> Dimensions(imgs[1])[2],
                               layers |-> [z \in 1..layers |-> LayerAfter(valid, z - 1)],
                               view_dimension |-> ViewDimension(ty),
                               width |-> Dimensions(imgs[1])[1]] >>]

CreateDepthTexture(cfg) ==
    [width |-> Max(cfg.width, 1), height |-> Max(cfg.height, 1)]

(* ----------------------------- resources.rs ---------------------------- *)
\* What load_model finds on disk: the .obj file, the .mtl file it names, the
\* texture files of its material, whether the mesh carries texture
\* coordinates and normals, and the material the mesh resolved to (<<>> when
\* its usemtl names no material of the .mtl file).
Assets ==
    [attributes : {"complete", "no_texcoords"},
     material_id : {<<>>, <<0>>},
     mtl : {"ok", "missing", "malformed"},
     obj : {"ok", "missing", "malformed"},
     textures : {"ok", "missing"}]

\* load_texture: load_binary(filename).await? then Texture::from_bytes
LoadTexture(found, ty) ==
    IF found # "ok" THEN [result |-> "Err", texture |-> <<>>]
    ELSE LET made == FromImagesOf(ImagesOf(1, 1, 1), ty, "panic") IN
         [result |-> made.result, texture |-> made.texture]

\* m.mesh.material_id.unwrap_or(0)
MaterialIdOrZero(material_id) == IF material_id = <<>> THEN 0 ELSE material_id[1]

LoadFailed(res) == [result |-> res, model |-> <<>>]

\* load_model, in the order of its statements.  The material loader runs
\* when the parser meets the mtllib line, before or after a malformed line
\* of the same file.
LoadModelOutcomes(asset) ==
    IF asset.obj = "missing" THEN {LoadFailed("Err")}
    ELSE IF asset.mtl = "missing"
    THEN IF asset.obj = "malformed"
         THEN {LoadFailed("panic"), LoadFailed("Err")}
         ELSE {LoadFailed("panic")}
    ELSE IF asset.obj = "malformed" THEN {LoadFailed("Err")}
    ELSE IF asset.mtl = "malformed" THEN {LoadFailed("Err")}
    ELSE LET diffuse == LoadTexture(asset.textures, "Diffuse")
             normal == LoadTexture(asset.textures, "Normal")
         IN
         IF diffuse.result # "Ok" THEN {LoadFailed(diffuse.result)}
         ELSE IF normal.result # "Ok" THEN {LoadFailed(normal.result)}
         ELSE IF asset.attributes = "no_texcoords" THEN {LoadFailed("panic")}
         ELSE {[result |-> "Ok",
                model |-> << [materials |-> << [diffuse_texture |-> diffuse.texture[1],
                                                name |-> "X",
                                                normal_texture |-> normal.texture[1]] >>,
                              meshes |-> << [material |-> MaterialIdOrZero(asset.material_id),
                                             name |-> "mesh",
                                             num_elements |-> 3] >>] >>]}

(* ------------------------------ camera --------------------------------- *)
\* The matrix is a function of the camera's fields; it is kept symbolic.
BuildViewProjectionMatrix(camera) == <<"view_proj", camera.eye, camera.aspect>>

(* ------------------------------ scene.rs ------------------------------- *)
SceneNew(camera) ==
    [materials |-> <<>>, models |-> <<>>, objects |-> <<>>, camera |-> camera]

\* usize subtraction: wraps in a release build (a debug build panics).
UsizeSub1(n) == IF n = 0 THEN UsizeMax ELSE n - 1

AddModelReturn(sc) == UsizeSub1(Len(sc.materials))

AddMaterialReturn(sc) == UsizeSub1(Len(sc.materials))

InBounds(idx, len) == idx >= 0 /\ idx < len

VecIndex_Clamped(len, idx) ==
    IF len = 0 THEN <<>> ELSE IF InBounds(idx, len) THEN <<idx>> ELSE <<len - 1>>

\* &vec[idx]: the element's position, or <<>> when the index panics.
VecIndex(len, idx) == IF InBounds(idx, len) THEN <<idx>> ELSE <<>>

\* for (idx, material) in self.materials.iter().enumerate()
RECURSIVE GetMaterialFrom(_, _, _)
GetMaterialFrom(sc, name, idx) ==
    IF idx >= Len(sc.materials) THEN <<>>
    ELSE IF sc.materials[idx + 1].name = name THEN <<idx>>
    ELSE GetMaterialFrom(sc, name, idx + 1)

SceneGetMaterial_LastMatch(sc, name) ==
    LET found == {i \in 0..(Len(sc.materials) - 1) : sc.materials[i + 1].name = name} IN
    IF found = {} THEN <<>>
    ELSE <<CHOOSE i \in found : \A j \in found : j <= i>>

\* Option<usize>: <<>> is None and <<idx>> is Some(idx).
SceneGetMaterial(sc, name) == GetMaterialFrom(sc, name, 0)

(* ----------------------------- recorded calls -------------------------- *)
Op(op, buf, slot, val, obj, mesh) ==
    [op |-> op, buf |-> buf, slot |-> slot, val |-> val, obj |-> obj, mesh |-> mesh]

(* ------------------------------ model.rs ------------------------------- *)
DrawMeshInstanced(oi, mi, mesh, material, instances) ==
    << Op("set_vertex_buffer", "vertex_buffer", 0, 0, oi, mi),
       Op("set_index_buffer", "index_buffer", 0, 0, oi, mi),
       Op("set_bind_group", "material", 0, material, oi, mi),
       Op("draw_indexed", "", instances, mesh.num_elements, oi, mi) >>

DrawMesh(oi, mi, mesh, material) == DrawMeshInstanced(oi, mi, mesh, material, 1)

(* ----------------------------- renderer.rs ----------------------------- *)
RendererNew(w) ==
    [is_surface_configured |-> FALSE,
     config |-> [width |-> w.width, height |-> w.height],
     depth_texture |-> CreateDepthTexture([width |-> w.width, height |-> w.height]),
     camera_buffer |-> <<"view_proj", Identity>>,
     model_buffer |-> Identity,
     simple_material_buffer |-> "SimpleMaterial::new()",
     light_buffer |-> "LightUniform::new()",
     \* the buffer each bind group exposes at binding 0, 1, ..
     camera_model_bind_group |-> <<"camera_buffer", "model_buffer">>,
     simple_material_bind_group |-> <<"model_buffer">>,
     light_bind_group |-> <<"light_buffer">>]

MeshAt_Reversed(model, mi) == model.meshes[Len(model.meshes) - mi + 1]

\* for mesh in &model.meshes
MeshAt(model, mi) == model.meshes[mi]

RECURSIVE DrawModelMeshes(_, _, _, _)
DrawModelMeshes(sc, oi, model, mi) ==
    IF mi > Len(model.meshes) THEN [ops |-> <<>>, panic |-> FALSE]
    ELSE LET mesh == MeshAt(model, mi)
             material == VecIndex(Len(sc.materials), mesh.material)
         IN
         IF material = <<>>
         THEN [ops |-> <<>>, panic |-> TRUE]
         ELSE LET rest == DrawModelMeshes(sc, oi, model, mi + 1) IN
              [ops |-> DrawMesh(oi, mi, mesh, material[1]) \o rest.ops,
               panic |-> rest.panic]

ObjectAt_Reversed(sc, oi) == sc.objects[Len(sc.objects) - oi + 1]

\* for obj in &scene.objects
ObjectAt(sc, oi) == sc.objects[oi]

TransformUpload_FirstOnly(obj, oi) ==
    IF oi = 1 THEN <<Op("write_buffer", "model_buffer", 0, obj.transform, oi, 0)>>
    ELSE <<>>

\* queue.write_buffer(&self.model_buffer, 0, transform)
TransformUpload(obj, oi) ==
    <<Op("write_buffer", "model_buffer", 0, obj.transform, oi, 0)>>

RECURSIVE DrawSceneFrom(_, _)
DrawSceneFrom(sc, oi) ==
    IF oi > Len(sc.objects) THEN [ops |-> <<>>, panic |-> FALSE]
    ELSE LET obj == ObjectAt(sc, oi)
             upload == TransformUpload(obj, oi)
             model == VecIndex(Len(sc.models), obj.model_index)
         IN
         IF model = <<>>
         THEN [ops |-> upload, panic |-> TRUE]
         ELSE LET inner == DrawModelMeshes(sc, oi, sc.models[model[1] + 1], 1) IN
              IF inner.panic
              THEN [ops |-> upload \o inner.ops, panic |-> TRUE]
              ELSE LET rest == DrawSceneFrom(sc, oi + 1) IN
                   [ops |-> upload \o inner.ops \o rest.ops, panic |-> rest.panic]

DrawScene(sc) == DrawSceneFrom(sc, 1)

CameraUpload_Skipped(camera) == <<>>

\* queue.write_buffer(&self.camera_buffer, 0, view_proj)
CameraUpload(camera) ==
    << Op("write_buffer", "camera_buffer", 0, BuildViewProjectionMatrix(camera), 0, 0) >>

RenderPrologue_NoRedraw(camera) == CameraUpload(camera)

RenderPrologue(camera) ==
    CameraUpload(camera) \o << Op("request_redraw", "window", 0, 0, 0, 0) >>

NotConfiguredReturn_Never(r) == FALSE

\* if !self.is_surface_configured { return Ok(()) }
NotConfiguredReturn(r) == ~r.is_surface_configured

AcquireError_Swallowed(outcome) == "Ok"

\* get_current_texture()? : the error is returned as it is
AcquireError(outcome) == outcome

\* wgpu::Color { r: 0.1, g: 0.2, b: 0.3, a: 1.0 } and the depth clear 1.0,
\* in tenths.
ClearColor == <<1, 2, 3, 10>>

ClearDepth == 10

\* encoder.begin_render_pass: one color attachment and the depth attachment
BeginRenderPass == Op("begin_render_pass", "clear", 0, <<ClearColor, ClearDepth>>, 0, 0)

PassSetup_NoLight ==
    << Op("set_pipeline", "render_pipeline", 0, 0, 0, 0),
       Op("set_bind_group", "camera_model_bind_group", 1, 0, 0, 0),
       Op("set_bind_group", "simple_material_bind_group", 2, 0, 0, 0) >>

PassSetup ==
    << Op("set_pipeline", "render_pipeline", 0, 0, 0, 0),
       Op("set_bind_group", "camera_model_bind_group", 1, 0, 0, 0),
       Op("set_bind_group", "simple_material_bind_group", 2, 0, 0, 0),
       Op("set_bind_group", "light_bind_group", 3, 0, 0, 0) >>

RenderEpilogue_PresentFirst ==
    << Op("end_render_pass", "", 0, 0, 0, 0),
       Op("present", "output", 0, 0, 0, 0),
       Op("submit", "queue", 0, 1, 0, 0) >>

\* The pass is dropped at the end of its block; then submit and present.
RenderEpilogue ==
    << Op("end_render_pass", "", 0, 0, 0, 0),
       Op("submit", "queue", 0, 1, 0, 0),
       Op("present", "output", 0, 0, 0, 0) >>

RendererRender(r, camera, sc, outcome) ==
    LET pre == RenderPrologue(camera) IN
    IF NotConfiguredReturn(r)
    THEN [ops |-> pre, result |-> "Ok"]
    ELSE LET acq == pre \o <<Op("get_current_texture", outcome, 0, 0, 0, 0)>> IN
         IF outcome # "Ok"
         THEN [ops |-> acq, result |-> AcquireError(outcome)]
         ELSE LET begun == acq \o
                    << Op("create_view", "output", 0, 0, 0, 0),
                       Op("create_command_encoder", "device", 0, 0, 0, 0),
                       BeginRenderPass >> \o PassSetup
                  ds == DrawScene(sc)
              IN
              IF ds.panic
              THEN [ops |-> begun \o ds.ops, result |-> "panic"]
              ELSE [ops |-> begun \o ds.ops \o RenderEpilogue, result |-> "Ok"]

(* --------------------------- wgpu queue model -------------------------- *)
\* Queue::write_buffer stages the data on the queue timeline: every write
\* issued before a submit has landed when that submit's command buffer runs.
RECURSIVE ApplyWrites(_, _, _)
ApplyWrites(content, buf, os) ==
    IF os = <<>> THEN content
    ELSE LET o == Head(os) IN
         ApplyWrites(IF o.op = "write_buffer" /\ o.buf = buf THEN o.val ELSE content,
                     buf, Tail(os))

IsDraw(o) == o.op = "draw_indexed"

Submitted(os) == \E k \in DOMAIN os : os[k].op = "submit"

\* The draws of the submitted command buffer, each with the model transform
\* the shader reads from model_buffer when the draw runs.
ExecuteCommandBuffer(os, model_buffer) ==
    IF Submitted(os)
    THEN LET draws == SelectSeq(os, IsDraw) IN
         [k \in DOMAIN draws |->
            [obj |-> draws[k].obj, mesh |-> draws[k].mesh, seen |-> model_buffer]]
    ELSE <<>>

(* ------------------------------- Init ---------------------------------- *)
WindowOf(width, height) ==
    [width |-> width, height |-> height, created |-> FALSE,
     redraw_requested |-> FALSE, resized_pending |-> FALSE]

InitWith(windows) ==
    /\ window \in windows
    /\ surface = "ok"
    /\ renderer = RendererNew(window)
    /\ scene = SceneNew([eye |-> 0, aspect |-> <<1, 1>>])
    /\ state = <<>>
    /\ loading = FALSE
    /\ exited = FALSE
    /\ last = "new"
    /\ arg = "none"
    /\ ops = <<>>
    /\ result = "none"
    /\ executed = <<>>
    /\ ret = 0
    /\ loaded = <<>>
    /\ panicked = FALSE

AllWindows == {WindowOf(w, h) : w \in Widths, h \in Heights}

\* Scene rendering: a Renderer built on a window of MaxWidth x MaxHeight pixels.
Init == InitWith({WindowOf(MaxWidth, MaxHeight)})

\* What an operation called with `a` leaves behind when it issues `os` and
\* returns `res`, carrying `value`.
Logged(name, a, os, res, value) ==
    /\ last' = name
    /\ arg' = a
    /\ ops' = os
    /\ result' = res
    /\ loaded' = value

Called(name, a, os, res) == Logged(name, a, os, res, <<>>)

Issued(name, os, res) == Called(name, "none", os, res)

appVars == <<state, loading, exited>>

(* --------------------------- Scene operations -------------------------- *)
AddMaterial(name) ==
    /\ ~panicked
    /\ Len(scene.materials) < MaxMaterials
    /\ scene' = [scene EXCEPT !.materials = Append(@, [name |-> name])]
    /\ ret' = AddMaterialReturn(scene')
    /\ Issued("add_material", <<>>, "none")
    /\ executed' = <<>>
    /\ UNCHANGED <<window, surface, renderer, appVars, panicked>>

\* materials.len() - 1 on an empty vector: wraps (release) or panics (debug).
AddModel(model) ==
    /\ ~panicked
    /\ Len(scene.models) < MaxModels
    /\ scene' = [scene EXCEPT !.models = Append(@, model)]
    /\ \/ /\ ret' = AddModelReturn(scene')
          /\ UNCHANGED panicked
       \/ /\ Len(scene.materials) = 0
          /\ panicked' = TRUE
          /\ ret' = 0
    /\ Issued("add_model", <<>>, "none")
    /\ executed' = <<>>
    /\ UNCHANGED <<window, surface, renderer, appVars>>

AddObject(obj) ==
    /\ ~panicked
    /\ Len(scene.objects) < MaxObjects
    /\ scene' = [scene EXCEPT !.objects = Append(@, obj)]
    /\ Issued("add_object", <<>>, "none")
    /\ executed' = <<>>
    /\ ret' = 0
    /\ UNCHANGED <<window, surface, renderer, appVars, panicked>>

GetMaterial(name) ==
    /\ ~panicked
    /\ ret' = SceneGetMaterial(scene, name)
    /\ Called("get_material", name, <<>>, "none")
    /\ executed' = <<>>
    /\ UNCHANGED <<window, surface, renderer, scene, appVars, panicked>>

(* ------------------------------- loaders ------------------------------- *)
FromImages(imgs, ty, handler) ==
    /\ ~panicked
    /\ LET call == FromImagesOf(imgs, ty, handler) IN
       /\ Logged("from_images", [imgs |-> imgs, ty |-> ty], call.ops, call.result,
                 call.texture)
       /\ panicked' = (call.result = "panic")
    /\ executed' = <<>>
    /\ ret' = 0
    /\ UNCHANGED <<window, surface, renderer, scene, appVars>>

LoadModel(asset) ==
    /\ ~panicked
    /\ \E call \in LoadModelOutcomes(asset) :
          /\ Logged("load_model", asset, <<>>, call.result, call.model)
          /\ panicked' = (call.result = "panic")
    /\ executed' = <<>>
    /\ ret' = 0
    /\ UNCHANGED <<window, surface, renderer, scene, appVars>>

(* -------------------------- Renderer operations ------------------------ *)
ConfigureOp(cfg) == Op("configure", "surface", cfg.width, cfg.height, 0, 0)

UpdateSizeOf_StaleDepth(r, width, height) ==
    [r EXCEPT !.config = [width |-> width, height |-> height],
              !.is_surface_configured = TRUE]

UpdateSizeOf(r, width, height) ==
    LET cfg == [width |-> width, height |-> height] IN
    [r EXCEPT !.config = cfg,
              !.is_surface_configured = TRUE,
              !.depth_texture = CreateDepthTexture(cfg)]

\* update_size: the caller passes positive dimensions.
UpdateSize(width, height) ==
    /\ ~panicked
    /\ renderer' = UpdateSizeOf(renderer, width, height)
    /\ Issued("update_size", <<ConfigureOp(renderer'.config)>>, "none")
    /\ executed' = <<>>
    /\ ret' = 0
    /\ UNCHANGED <<window, surface, scene, appVars, panicked>>

Render(camera, outcome) ==
    /\ ~panicked
    /\ LET call == RendererRender(renderer, camera, scene, outcome) IN
       /\ Called("render", camera, call.ops, call.result)
       /\ panicked' = (call.result = "panic")
       /\ renderer' = [renderer EXCEPT
              !.camera_buffer = ApplyWrites(@, "camera_buffer", call.ops),
              !.model_buffer = ApplyWrites(@, "model_buffer", call.ops)]
       /\ executed' = ExecuteCommandBuffer(call.ops, renderer'.model_buffer)
       /\ window' = [window EXCEPT !.redraw_requested =
              @ \/ (\E k \in DOMAIN call.ops : call.ops[k].op = "request_redraw")]
    /\ ret' = 0
    /\ UNCHANGED <<surface, scene, appVars>>

Next ==
    \/ AddMaterial("X")
    \/ AddModel(LoadedModel(scene))
    \/ \E obj \in InstancePool : AddObject(obj)
    \/ UpdateSize(window.width, window.height)
    \/ \E outcome \in AcquireOutcomes : Render(scene.camera, outcome)

Spec == Init /\ [][Next]_vars

(* ---------------------- Scene: the registry alone ---------------------- *)
SceneNext ==
    \/ \E name \in MaterialNames : AddMaterial(name)
    \/ AddModel(LoadedModel(scene))
    \/ \E obj \in InstancePool : AddObject(obj)
    \/ \E name \in MaterialNames : GetMaterial(name)

SceneSpec == Init /\ [][SceneNext]_vars

(* --------------------------- the asset loaders ------------------------- *)
LoadNext ==
    \/ \E n \in 0..MaxImages, width \in 1..MaxSize, height \in 1..MaxSize,
          ty \in TextureTypes, handler \in {"panic", "log"} :
          FromImages(ImagesOf(n, width, height), ty, handler)
    \/ \E asset \in Assets : LoadModel(asset)

LoadSpec == Init /\ [][LoadNext]_vars

(* ------------------ Renderer: surface size (empty scene) --------------- *)
SizeInit == InitWith(AllWindows)

SizeNext ==
    \/ \E width \in 1..MaxSize, height \in 1..MaxSize : UpdateSize(width, height)
    \/ \E camera \in Cameras, outcome \in AcquireOutcomes : Render(camera, outcome)

SizeSpec == SizeInit /\ [][SizeNext]_vars

(* =============================== lib.rs ================================ *)
NUM_INSTANCES_PER_ROW == 10

KeyCodes == {"Escape", "KeyW"}

\* camera.rs: the controller remembers the forward key; update_camera moves
\* the eye one step forward while it is held.
ControllerHandleKey(controller, code, is_pressed) ==
    IF code = "KeyW" THEN [controller EXCEPT !.is_forward_pressed = is_pressed]
    ELSE controller

UpdateCamera(controller, camera) ==
    IF controller.is_forward_pressed /\ camera.eye < MaxEye
    THEN [camera EXCEPT !.eye = @ + 1]
    ELSE camera

StateNew(w) ==
    LET cfg == [width |-> w.width, height |-> w.height]
        camera == [eye |-> 0, aspect |-> <<Max(cfg.width, 1), Max(cfg.height, 1)>>]
    IN
    [config |-> cfg,
     is_surface_configured |-> FALSE,
     depth_texture |-> CreateDepthTexture(cfg),
     camera |-> camera,
     camera_buffer |-> BuildViewProjectionMatrix(camera),
     camera_controller |-> [is_forward_pressed |-> FALSE],
     obj_model |-> ModelOf(1)]

ResizeAccepted_WidthOnly(width, height) == width > 0

\* if width > 0 && height > 0
ResizeAccepted(width, height) == width > 0 /\ height > 0

StateResize_ClearsOnReject(s, width, height) ==
    IF ResizeAccepted(width, height)
    THEN LET cfg == [width |-> width, height |-> height] IN
         [state |-> [s EXCEPT !.config = cfg,
                              !.is_surface_configured = TRUE,
                              !.camera.aspect = <<cfg.width, cfg.height>>,
                              !.depth_texture = CreateDepthTexture(cfg)],
          ops |-> <<ConfigureOp(cfg)>>]
    ELSE [state |-> [s EXCEPT !.is_surface_configured = FALSE], ops |-> <<>>]

\* The State after resize(width, height), and the calls resize issued.
StateResize(s, width, height) ==
    IF ResizeAccepted(width, height)
    THEN LET cfg == [width |-> width, height |-> height] IN
         [state |-> [s EXCEPT !.config = cfg,
                              !.is_surface_configured = TRUE,
                              !.camera.aspect = <<cfg.width, cfg.height>>,
                              !.depth_texture = CreateDepthTexture(cfg)],
          ops |-> <<ConfigureOp(cfg)>>]
    ELSE [state |-> s, ops |-> <<>>]

StateUpdate_Skipped(s) == s

StateUpdate(s) ==
    LET camera == UpdateCamera(s.camera_controller, s.camera) IN
    [s EXCEPT !.camera = camera,
              !.camera_buffer = BuildViewProjectionMatrix(camera)]

UpdateOps(s) ==
    <<Op("write_buffer", "camera_buffer", 0, StateUpdate(s).camera_buffer, 0, 0)>>

StateRender(s, outcome) ==
    LET pre == <<Op("request_redraw", "window", 0, 0, 0, 0)>> IN
    IF ~s.is_surface_configured
    THEN [ops |-> pre, result |-> "Ok"]
    ELSE LET acq == pre \o <<Op("get_current_texture", outcome, 0, 0, 0, 0)>> IN
         IF outcome # "Ok"
         THEN [ops |-> acq, result |-> outcome]
         ELSE LET mesh == s.obj_model.meshes[1] IN
              [ops |-> acq \o
                  << Op("create_view", "output", 0, 0, 0, 0),
                     Op("create_command_encoder", "device", 0, 0, 0, 0),
                     BeginRenderPass,
                     Op("set_pipeline", "render_pipeline", 0, 0, 0, 0),
                     Op("set_bind_group", "camera_bind_group", 1, 0, 0, 0),
                     Op("set_vertex_buffer", "instance_buffer", 1, 0, 0, 0) >> \o
                  DrawMeshInstanced(0, 1, mesh, mesh.material,
                                    NUM_INSTANCES_PER_ROW * NUM_INSTANCES_PER_ROW) \o
                  RenderEpilogue,
               result |-> "Ok"]

HandleRenderResult_LostOnly(s, res, w) ==
    IF res = "Ok" THEN [state |-> s, ops |-> <<>>]
    ELSE IF res = "Lost" THEN StateResize(s, w.width, w.height)
    ELSE [state |-> s, ops |-> <<Op("log_error", res, 0, 0, 0, 0)>>]

\* The match on render's result in window_event: the State it leaves and
\* the calls it issues.
HandleRenderResult(s, res, w) ==
    IF res = "Ok" THEN [state |-> s, ops |-> <<>>]
    ELSE IF res \in {"Lost", "Outdated"} THEN StateResize(s, w.width, w.height)
    ELSE [state |-> s, ops |-> <<Op("log_error", res, 0, 0, 0, 0)>>]

Running == window.created /\ ~exited /\ ~panicked

rendererVars == <<renderer, scene, executed, ret, panicked>>

(* ------------------------------ environment ---------------------------- *)
\* The user resizes (or minimises) the window; winit queues a Resized event.
WindowChange(width, height) ==
    /\ Running
    /\ window' = [window EXCEPT !.width = width, !.height = height,
                                !.resized_pending = TRUE]
    /\ Issued("environment", <<>>, "none")
    /\ UNCHANGED <<surface, appVars, rendererVars>>

\* The presentation surface starts or stops failing its acquisitions.
SurfaceChange ==
    /\ Running
    /\ surface' = IF surface = "ok" THEN "failing" ELSE "ok"
    /\ Issued("environment", <<>>, "none")
    /\ UNCHANGED <<window, appVars, rendererVars>>

(* ------------------------- ApplicationHandler -------------------------- *)
\* resumed, native build: the State is built before resumed returns.
Resumed ==
    /\ ~window.created /\ ~exited
    /\ window' = [window EXCEPT !.created = TRUE, !.redraw_requested = TRUE]
    /\ state' = <<StateNew(window)>>
    /\ Issued("resumed", <<>>, "none")
    /\ UNCHANGED <<surface, loading, exited, rendererVars>>

\* resumed, web build: State::new is spawned and arrives as a user event.
ResumedWeb ==
    /\ ~window.created /\ ~exited
    /\ window' = [window EXCEPT !.created = TRUE, !.redraw_requested = TRUE]
    /\ loading' = TRUE
    /\ Issued("resumed", <<>>, "none")
    /\ UNCHANGED <<surface, state, exited, rendererVars>>

UserEvent ==
    /\ Running /\ loading
    /\ loading' = FALSE
    /\ LET resized == StateResize(StateNew(window), window.width, window.height) IN
       /\ state' = <<resized.state>>
       /\ Issued("user_event",
                 <<Op("request_redraw", "window", 0, 0, 0, 0)>> \o resized.ops,
                 "none")
    /\ window' = [window EXCEPT !.redraw_requested = TRUE]
    /\ UNCHANGED <<surface, exited, rendererVars>>

CloseRequested ==
    /\ Running
    /\ exited' = (state # <<>>)
    /\ Issued("window_event", <<>>, "none")
    /\ UNCHANGED <<window, surface, state, loading, rendererVars>>

Resized ==
    /\ Running /\ window.resized_pending
    /\ window' = [window EXCEPT !.resized_pending = FALSE]
    /\ IF state = <<>>
       THEN /\ Issued("window_event", <<>>, "none")
            /\ UNCHANGED state
       ELSE LET resized == StateResize(state[1], window.width, window.height) IN
            /\ state' = <<resized.state>>
            /\ Issued("window_event", resized.ops, "none")
    /\ UNCHANGED <<surface, loading, exited, rendererVars>>

SurfaceOutcomes == IF surface = "ok" THEN {"Ok"} ELSE SurfaceErrors

RedrawRequested(outcome) ==
    /\ Running /\ window.redraw_requested
    /\ outcome \in SurfaceOutcomes
    /\ IF state = <<>>
       THEN /\ window' = [window EXCEPT !.redraw_requested = FALSE]
            /\ Issued("window_event", <<>>, "none")
            /\ UNCHANGED state
       ELSE LET s1 == StateUpdate(state[1])
                call == StateRender(s1, outcome)
                handled == HandleRenderResult(s1, call.result, window)
            IN
            /\ state' = <<handled.state>>
            /\ window' = [window EXCEPT !.redraw_requested =
                   \E k \in DOMAIN call.ops : call.ops[k].op = "request_redraw"]
            /\ Issued("window_event",
                      UpdateOps(state[1]) \o call.ops \o handled.ops,
                      call.result)
    /\ UNCHANGED <<surface, loading, exited, rendererVars>>

KeyboardInput(code, is_pressed) ==
    /\ Running
    /\ IF state = <<>>
       THEN UNCHANGED <<state, exited>>
       ELSE IF code = "Escape" /\ is_pressed
            THEN /\ exited' = TRUE
                 /\ UNCHANGED state
            ELSE /\ state' = <<[state[1] EXCEPT !.camera_controller =
                        ControllerHandleKey(@, code, is_pressed)]>>
                 /\ UNCHANGED exited
    /\ Issued("window_event", <<>>, "none")
    /\ UNCHANGED <<window, surface, loading, rendererVars>>

AppInit == InitWith(AllWindows)

AppNext ==
    \/ Resumed
    \/ ResumedWeb
    \/ UserEvent
    \/ CloseRequested
    \/ Resized
    \/ \E outcome \in AcquireOutcomes : RedrawRequested(outcome)
    \/ \E code \in KeyCodes, is_pressed \in BOOLEAN : KeyboardInput(code, is_pressed)
    \/ \E width \in Widths, height \in Heights : WindowChange(width, height)
    \/ SurfaceChange

AppSpec == AppInit /\ [][AppNext]_vars

\* The event loop with the fairness it provides: a requested redraw is
\* delivered.  The camera keys, which the render result never depends on,
\* stay unpressed here.
AppFairNext ==
    \/ Resumed
    \/ ResumedWeb
    \/ UserEvent
    \/ CloseRequested
    \/ Resized
    \/ \E outcome \in AcquireOutcomes : RedrawRequested(outcome)
    \/ \E is_pressed \in BOOLEAN : KeyboardInput("Escape", is_pressed)
    \/ \E width \in Widths, height \in Heights : WindowChange(width, height)
    \/ SurfaceChange

AppFairSpec ==
    /\ AppInit
    /\ [][AppFairNext]_vars
    /\ WF_vars(\E outcome \in AcquireOutcomes : RedrawRequested(outcome))

(* ------------- both surface owners: the Renderer and the State --------- *)
\* The Renderer and the legacy State each own a surface configuration and
\* a configured flag; here both are driven, each by its own operations.
SurfaceNext ==
    \/ (window.width > 0 /\ window.height > 0 /\ UpdateSize(window.width, window.height))
    \/ \E outcome \in AcquireOutcomes : Render(scene.camera, outcome)
    \/ Resumed
    \/ ResumedWeb
    \/ UserEvent
    \/ CloseRequested
    \/ Resized
    \/ \E outcome \in AcquireOutcomes : RedrawRequested(outcome)
    \/ \E is_pressed \in BOOLEAN : KeyboardInput("Escape", is_pressed)
    \/ \E width \in Widths, height \in Heights : WindowChange(width, height)
    \/ SurfaceChange

SurfaceSpec == AppInit /\ [][SurfaceNext]_vars

(* ============================== properties ============================= *)
Count(os, name) == Len(SelectSeq(os, LAMBDA o : o.op = name))

IsModelUpload(o) == o.op = "write_buffer" /\ o.buf = "model_buffer"

Positions(os, Test(_)) ==
    SelectSeq([i \in DOMAIN os |-> i], LAMBDA i : Test(os[i]))

\* A render call that went through to submit and present.
FrameRendered == last = "render" /\ result = "Ok" /\ Count(ops, "submit") = 1

ModelOfObject(obj) == scene.models[obj.model_index + 1]

(* ---- C1 ---- *)
\* C1: every draw the GPU runs for a render call reads, from the shared
\* model-transform buffer, the transform of the instance it was issued for.
C1_DrawsSeeOwnTransform ==
    \A k \in DOMAIN executed :
        executed[k].seen = scene.objects[executed[k].obj].transform

(* ---- C2 ---- *)
\* C2: a render call made while the surface was never configured returns Ok
\* and issues no get_current_texture, no submit and no present.
C2_UnconfiguredRenderIsNoOp ==
    (last = "render" /\ ~renderer.is_surface_configured) =>
        /\ result = "Ok"
        /\ Count(ops, "get_current_texture") = 0
        /\ Count(ops, "submit") = 0
        /\ Count(ops, "present") = 0

C2_Witness ==
    /\ last = "render"
    /\ ~renderer.is_surface_configured
    /\ Len(scene.objects) > 0

(* ---- C3 ---- *)
\* C3: every render call issues exactly one request_redraw, whatever it
\* returns, and leaves the window with a redraw requested.
C3_RedrawRequestedOnce ==
    last = "render" =>
        /\ Count(ops, "request_redraw") = 1
        /\ window.redraw_requested

C3_Witness ==
    /\ last = "render"
    /\ result \in SurfaceErrors
    /\ Count(ops, "request_redraw") = 1

(* ---- C4 ---- *)
\* C4: a render call whose get_current_texture failed returns exactly that
\* failure kind, and issues neither a submit nor a present.
C4_AcquireFailureReturned ==
    \A k \in DOMAIN ops :
        (last = "render" /\ ops[k].op = "get_current_texture"
            /\ ops[k].buf \in SurfaceErrors) =>
            /\ result = ops[k].buf
            /\ Count(ops, "submit") = 0
            /\ Count(ops, "present") = 0

C4_Witness ==
    /\ last = "render"
    /\ result = "OutOfMemory"
    /\ Len(scene.objects) > 0

(* ---- C8 ---- *)
\* C8: update_size issues one surface configure with the new dimensions and
\* sets the flag, and whenever the surface is configured the depth texture
\* has the width and height of the surface configuration.
C8_DepthMatchesConfig ==
    /\ renderer.is_surface_configured =>
          /\ renderer.depth_texture.width = renderer.config.width
          /\ renderer.depth_texture.height = renderer.config.height
    /\ last = "update_size" =>
          /\ renderer.is_surface_configured
          /\ ops = <<ConfigureOp(renderer.config)>>

C8_Witness ==
    /\ last = "update_size"
    /\ renderer.config.width # window.width
    /\ renderer.config.width # renderer.config.height
    /\ renderer.depth_texture.width = renderer.config.width

(* ---- C9 ---- *)
AllShareOneModel ==
    \A i, j \in DOMAIN scene.objects :
        scene.objects[i].model_index = scene.objects[j].model_index

\* The draw_indexed calls issued after position p and before position q.
DrawsBetween(p, q) ==
    Cardinality({i \in DOMAIN ops : IsDraw(ops[i]) /\ p < i /\ i < q})

\* C9: a successful render of N objects sharing one model of M meshes issues
\* N * M draw_indexed calls and N transform uploads; the k-th upload carries
\* the k-th object's transform and is followed by that object's M draws
\* before the next upload.
C9_DrawAndUploadCounts ==
    (FrameRendered /\ AllShareOneModel /\ Len(scene.objects) > 0) =>
        LET N == Len(scene.objects)
            M == Len(ModelOfObject(scene.objects[1]).meshes)
            up == Positions(ops, IsModelUpload)
        IN
        /\ Count(ops, "draw_indexed") = N * M
        /\ Len(up) = N
        /\ \A k \in 1..N :
              /\ ops[up[k]].val = scene.objects[k].transform
              /\ DrawsBetween(0, up[1]) = 0
              /\ DrawsBetween(up[k], IF k < N THEN up[k + 1] ELSE Len(ops) + 1) = M

C9_Witness ==
    /\ FrameRendered
    /\ AllShareOneModel
    /\ Len(scene.objects) = 2
    /\ Count(ops, "draw_indexed") = 4

(* ---- C10 ---- *)
\* What one draw is: the transform uploaded last before it, the material
\* bind group set for it, and its index count.
DrawnAt(i) ==
    LET before == SelectSeq(SubSeq(ops, 1, i), IsModelUpload) IN
    [transform |-> before[Len(before)].val,
     material |-> ops[i - 1].val,
     num_elements |-> ops[i].val]

DrawSequence ==
    LET at == Positions(ops, IsDraw) IN [k \in DOMAIN at |-> DrawnAt(at[k])]

RECURSIVE InVectorOrder(_)
InVectorOrder(oi) ==
    IF oi > Len(scene.objects) THEN <<>>
    ELSE LET obj == scene.objects[oi]
             meshes == ModelOfObject(obj).meshes
         IN
         [j \in DOMAIN meshes |->
            [transform |-> obj.transform,
             material |-> meshes[j].material,
             num_elements |-> meshes[j].num_elements]] \o InVectorOrder(oi + 1)

\* C10: the draws of a successful render are the scene's objects in vector
\* order and, within each object, its model's meshes in vector order.
C10_DrawOrderIsVectorOrder ==
    FrameRendered => DrawSequence = InVectorOrder(1)

C10_Witness ==
    /\ FrameRendered
    /\ Len(scene.objects) = 2
    /\ scene.objects[1].model_index # scene.objects[2].model_index
    /\ scene.objects[1].transform # scene.objects[2].transform
    /\ Len(DrawSequence) = 3

(* ---- C11 ---- *)
\* The indices at which a material named `name` is stored.
IndicesNamed(name) ==
    {i \in 0..(Len(scene.materials) - 1) : scene.materials[i + 1].name = name}

\* C11: get_material(name) returns None when no material of that name was
\* added and otherwise the smallest index storing that name; and adding a
\* material never changes the answer for a name that was already found.
C11_FirstMatchWins ==
    /\ [](last = "get_material" =>
            IF IndicesNamed(arg) = {} THEN ret = <<>>
            ELSE /\ Len(ret) = 1
                 /\ ret[1] \in IndicesNamed(arg)
                 /\ \A i \in IndicesNamed(arg) : ret[1] <= i)
    /\ [][last' = "add_material" =>
            \A name \in MaterialNames :
                SceneGetMaterial(scene, name) # <<>> =>
                    SceneGetMaterial(scene', name) = SceneGetMaterial(scene, name)]_vars

\* "X" was added twice and is found at index 0.
C11_Witness ==
    /\ last = "get_material"
    /\ arg = "X"
    /\ ret = <<0>>
    /\ Len(scene.materials) = 2
    /\ scene.materials[2].name = "X"

(* ---- C12 ---- *)
ModelIndexValid(oi) == InBounds(scene.objects[oi].model_index, Len(scene.models))

\* The meshes of object oi's model whose material index is out of range.
BadMeshes(oi) ==
    LET meshes == ModelOfObject(scene.objects[oi]).meshes IN
    {mi \in DOMAIN meshes : ~InBounds(meshes[mi].material, Len(scene.materials))}

ObjectValid(oi) == ModelIndexValid(oi) /\ BadMeshes(oi) = {}

InvalidObjects == {oi \in DOMAIN scene.objects : ~ObjectValid(oi)}

SurfaceAcquired ==
    \E k \in DOMAIN ops : ops[k].op = "get_current_texture" /\ ops[k].buf = "Ok"

\* C12: a render call that acquired its image on a scene with an
\* out-of-range model or material index panics at the first such object:
\* its transform is the last one uploaded, nothing is drawn for an
\* out-of-range reference or after it, every draw issued before it uses the
\* model and material its mesh references, and nothing is submitted or
\* presented.
C12_OutOfRangeIndexPanics ==
    (last = "render" /\ SurfaceAcquired /\ InvalidObjects # {}) =>
        LET bad == CHOOSE oi \in InvalidObjects : \A oj \in InvalidObjects : oi <= oj IN
        /\ result = "panic"
        /\ panicked
        /\ Count(ops, "submit") = 0
        /\ Count(ops, "present") = 0
        /\ executed = <<>>
        /\ Len(SelectSeq(ops, IsModelUpload)) = bad
        /\ \A i \in DOMAIN ops : IsDraw(ops[i]) =>
              /\ ops[i].obj <= bad
              /\ ModelIndexValid(ops[i].obj)
              /\ ops[i].obj = bad => \A mi \in BadMeshes(bad) : ops[i].mesh < mi
              /\ LET mesh == ModelOfObject(scene.objects[ops[i].obj]).meshes[ops[i].mesh] IN
                 /\ ops[i].val = mesh.num_elements
                 /\ ops[i - 1].op = "set_bind_group"
                 /\ ops[i - 1].slot = 0
                 /\ ops[i - 1].val = mesh.material

\* The second object names a model that does not exist; the first was drawn.
C12_Witness ==
    /\ last = "render"
    /\ result = "panic"
    /\ Len(scene.objects) = 2
    /\ ObjectValid(1)
    /\ ~ModelIndexValid(2)
    /\ Count(ops, "draw_indexed") > 0

(* ---- C13 ---- *)
\* C13: from_images asked for a cubemap from fewer than 6 images returns an
\* error and no texture.
C13_CubemapNeedsSixImages ==
    (last = "from_images" /\ arg.ty = "Cubemap" /\ Len(arg.imgs) < CubemapLayers) =>
        /\ result = "Err"
        /\ loaded = <<>>

(* ---- C14 ---- *)
AssetFaulty(asset) ==
    \/ asset.obj # "ok"
    \/ asset.mtl # "ok"
    \/ asset.textures # "ok"
    \/ asset.attributes # "complete"
    \/ asset.material_id = <<>>

\* C14: load_model on an asset with a missing or malformed file, a malformed
\* mesh or an unresolved material reference returns Err (no panic, no model
\* with a substituted material index), and the scene's registries are as
\* they were.
C14_LoadFailuresReturned ==
    (last = "load_model" /\ AssetFaulty(arg)) =>
        /\ result = "Err"
        /\ ~panicked
        /\ loaded = <<>>
        /\ scene.materials = <<>> /\ scene.models = <<>> /\ scene.objects = <<>>

(* ---- C15 ---- *)
ProtocolOps ==
    {"get_current_texture", "create_command_encoder", "begin_render_pass",
     "end_render_pass", "submit", "present"}

\* The names of the frame-protocol calls of the last operation, in order.
ProtocolCalls ==
    LET calls == SelectSeq(ops, LAMBDA o : o.op \in ProtocolOps) IN
    [k \in DOMAIN calls |-> calls[k].op]

FrameProtocol ==
    <<"get_current_texture", "create_command_encoder", "begin_render_pass",
      "end_render_pass", "submit", "present">>

InPassOps == {"set_pipeline", "set_bind_group", "set_vertex_buffer",
              "set_index_buffer", "draw_indexed"}

\* C15: a render call that acquired its image and returns has issued, in
\* this order, one acquire, one encoder, one begin of a render pass clearing
\* color to (0.1, 0.2, 0.3, 1.0) and depth to 1.0, one end of that pass, one
\* submit of a single command buffer and one present; everything it binds
\* or draws lies inside the pass.  A call that panics inside the pass has
\* followed the same order up to the pass and submitted and presented
\* nothing.
C15_AcquireEncodeSubmitPresent ==
    (last = "render" /\ SurfaceAcquired) =>
        /\ result # "panic" => /\ result = "Ok"
                               /\ ProtocolCalls = FrameProtocol
        /\ result = "panic" => ProtocolCalls = SubSeq(FrameProtocol, 1, 3)
        /\ \A i \in DOMAIN ops :
              /\ ops[i].op = "begin_render_pass" => ops[i].val = <<ClearColor, ClearDepth>>
              /\ ops[i].op = "submit" => ops[i].val = 1
              /\ ops[i].op \in InPassOps =>
                    /\ \E b \in 1..(i - 1) : ops[b].op = "begin_render_pass"
                    /\ \A e \in 1..i : ops[e].op # "end_render_pass"

C15_Witness ==
    /\ FrameRendered
    /\ ProtocolCalls = FrameProtocol
    /\ Count(ops, "draw_indexed") = 3

(* ---- C16 ---- *)
IsBind(o, group) == o.op = "set_bind_group" /\ o.slot = group

\* The mesh a recorded draw was issued for.
MeshDrawn(o) == ModelOfObject(scene.objects[o.obj]).meshes[o.mesh]

\* C16: in the pass of a render call the pipeline and each of the bind
\* groups 1, 2 and 3 are set exactly once, before every draw and every
\* group-0 binding; and each draw is one draw_indexed of a single instance
\* over the mesh's num_elements indices, issued right after group 0 was set
\* to the material that mesh references.
C16_BindOncePerPassAndPerMesh ==
    (last = "render" /\ SurfaceAcquired) =>
        /\ Count(ops, "set_pipeline") = 1
        /\ \A group \in 1..3 :
              Cardinality({i \in DOMAIN ops : IsBind(ops[i], group)}) = 1
        /\ \A i, j \in DOMAIN ops :
              ((ops[i].op = "set_pipeline" \/ \E group \in 1..3 : IsBind(ops[i], group))
                  /\ (IsDraw(ops[j]) \/ IsBind(ops[j], 0))) => i < j
        /\ Cardinality({i \in DOMAIN ops : IsBind(ops[i], 0)}) = Count(ops, "draw_indexed")
        /\ \A i \in DOMAIN ops : IsDraw(ops[i]) =>
              /\ ops[i].slot = 1
              /\ ops[i].val = MeshDrawn(ops[i]).num_elements
              /\ IsBind(ops[i - 1], 0)
              /\ ops[i - 1].buf = "material"
              /\ ops[i - 1].val = MeshDrawn(ops[i]).material

\* A frame whose draws used two different materials.
C16_Witness ==
    /\ FrameRendered
    /\ \E i, j \in DOMAIN ops :
          /\ IsBind(ops[i], 0) /\ IsBind(ops[j], 0)
          /\ ops[i].val # ops[j].val

(* ---- C17 ---- *)
\* The buffers, by binding, of the bind group the last render call set at
\* index `group`.
BuffersBoundAt(group) ==
    LET i == CHOOSE k \in DOMAIN ops : IsBind(ops[k], group) IN renderer[ops[i].buf]

BuffersOf(group) == {BuffersBoundAt(group)[b] : b \in DOMAIN BuffersBoundAt(group)}

\* C17: the pass of a render call has at group 1 the camera buffer (binding
\* 0) and the model-transform buffer (binding 1), at group 2 the buffer
\* initialised from SimpleMaterial, at group 3 the light buffer, and no
\* buffer is exposed by two of these groups.
C17_BindGroupsMatchShaderInterface ==
    (last = "render" /\ SurfaceAcquired) =>
        /\ BuffersBoundAt(1) = <<"camera_buffer", "model_buffer">>
        /\ BuffersBoundAt(2) = <<"simple_material_buffer">>
        /\ renderer.simple_material_buffer = "SimpleMaterial::new()"
        /\ BuffersBoundAt(3) = <<"light_buffer">>
        /\ \A g, h \in 1..3 : g # h => BuffersOf(g) \cap BuffersOf(h) = {}

(* ---- C18 ---- *)
IsCameraUpload(o) == o.op = "write_buffer" /\ o.buf = "camera_buffer"

\* C18: every render call, whatever it returns, issues as its first call
\* one upload of the view-projection of its camera argument to the camera
\* buffer, which then holds that matrix; and no other operation changes
\* the camera buffer.
C18_CameraUploadedEveryRender ==
    /\ [](last = "render" =>
            /\ Len(SelectSeq(ops, IsCameraUpload)) = 1
            /\ IsCameraUpload(ops[1])
            /\ ops[1].val = BuildViewProjectionMatrix(arg)
            /\ renderer.camera_buffer = BuildViewProjectionMatrix(arg))
    /\ [][last' # "render" => renderer'.camera_buffer = renderer.camera_buffer]_vars

\* A render call whose acquisition failed, made with a camera that differs
\* from the one the buffer was created for.
C18_Witness ==
    /\ last = "render"
    /\ result \in SurfaceErrors
    /\ arg.eye = MaxEye
    /\ renderer.camera_buffer = BuildViewProjectionMatrix(arg)

(* ---- C5 ---- *)
\* The handler that just ran was a redraw whose render failed with Lost or
\* Outdated.
LostHandled == last = "window_event" /\ result \in {"Lost", "Outdated"}

WindowPositive == ResizeAccepted(window.width, window.height)

WindowConfig == [width |-> window.width, height |-> window.height]

FramePresented == last = "window_event" /\ Count(ops, "present") = 1

SurfaceHealthy == surface = "ok" /\ WindowPositive /\ ~exited

RenderCalled(os) == Count(os, "request_redraw") > 0

\* C6: a Timeout only drops the frame (nothing presented, nothing
\* reconfigured, the loop keeps running with a redraw requested), and after
\* an OutOfMemory failure no further render call is made.
C6_TimeoutRetriedOutOfMemoryFatal ==
    [][/\ (last' = "window_event" /\ result' = "Timeout") =>
             /\ window'.redraw_requested
             /\ ~exited'
             /\ Count(ops', "present") = 0
             /\ Count(ops', "configure") = 0
       /\ (last = "window_event" /\ result = "OutOfMemory") =>
             ~(last' = "window_event" /\ RenderCalled(ops'))]_vars

(* ---- C7 ---- *)
SurfaceFields(s) == <<s.config, s.is_surface_configured, s.depth_texture>>

\* C7: a handler that runs while the window has a zero width or height
\* issues no surface configure and leaves config, the configured flag and
\* the depth texture as they were; and a configured surface always has a
\* width and a height of at least 1.
C7_ZeroResizeRejected ==
    /\ []((state # <<>> /\ state[1].is_surface_configured) =>
            (state[1].config.width >= 1 /\ state[1].config.height >= 1))
    /\ [][(state # <<>> /\ last' = "window_event" /\ ~WindowPositive) =>
            /\ Count(ops', "configure") = 0
            /\ SurfaceFields(state'[1]) = SurfaceFields(state[1])]_vars

\* A Resized event for a zero-sized window was consumed by a State whose
\* surface had been configured before.
C7_Witness ==
    /\ state # <<>>
    /\ state[1].is_surface_configured
    /\ ~WindowPositive
    /\ ~window.resized_pending
    /\ last = "window_event"
    /\ ops = <<>>

(* ---- C19 ---- *)
\* The camera pose update() produces from the State a handler starts in.
UpdatedCamera(s) == UpdateCamera(s.camera_controller, s.camera)

\* C19: a window event handled while no State exists changes nothing and
\* issues no call; a redraw handled on a State issues exactly one camera
\* upload, as its first call and so before every call of render, carrying
\* the view-projection of the pose update() produced, and that pose and
\* that matrix are what the State holds afterwards.
C19_UpdateThenRender ==
    [][last' = "window_event" =>
         /\ state = <<>> =>
               /\ state' = <<>>
               /\ ops' = <<>>
               /\ exited' = exited
               /\ renderer' = renderer
         /\ (state # <<>> /\ RenderCalled(ops')) =>
               /\ Len(SelectSeq(ops', IsCameraUpload)) = 1
               /\ IsCameraUpload(ops'[1])
               /\ ops'[1].val = BuildViewProjectionMatrix(UpdatedCamera(state[1]))
               /\ state'[1].camera.eye = UpdatedCamera(state[1]).eye
               /\ state'[1].camera_buffer = ops'[1].val]_vars

\* A presented frame whose update moved the camera.
C19_Witness ==
    /\ FramePresented
    /\ state[1].camera.eye = MaxEye
    /\ state[1].camera_controller.is_forward_pressed
    /\ IsCameraUpload(ops[1])
    /\ ops[1].val = BuildViewProjectionMatrix(state[1].camera)

(* ---- C20 ---- *)
\* An aspect is kept as the pair <<width, height>> it was computed from; it
\* equals width / height when the two ratios agree.
AspectIs(aspect, width, height) == aspect[1] * height = aspect[2] * width

\* C20: whenever a surface is configured, the camera rendered through it
\* has the aspect config.width / config.height: the Scene's camera for the
\* Renderer's surface, the State's camera for the State's surface.
C20_AspectFollowsResize ==
    /\ renderer.is_surface_configured =>
          AspectIs(scene.camera.aspect, renderer.config.width, renderer.config.height)
    /\ (state # <<>> /\ state[1].is_surface_configured) =>
          AspectIs(state[1].camera.aspect, state[1].config.width, state[1].config.height)

\* The part of C20 that lib.rs keeps: an accepted State::resize sets the
\* aspect to the new width / height and a rejected one leaves it alone.
StateAspectFollowsResize ==
    /\ []((state # <<>> /\ state[1].is_surface_configured) =>
            AspectIs(state[1].camera.aspect, state[1].config.width, state[1].config.height))
    /\ [][(state # <<>> /\ last' = "window_event" /\ ~WindowPositive) =>
            state'[1].camera.aspect = state[1].camera.aspect]_vars

(* ---- C21 ---- *)
\* C21: the index add_model returns is the position of the model it just
\* pushed, models.len() - 1, so models[ret] is that model.
C21_AddModelReturnsModelIndex ==
    (last = "add_model" /\ ~panicked) =>
        /\ ret = Len(scene.models) - 1
        /\ InBounds(ret, Len(scene.models))

(* ---- C22 ---- *)
\* C22: add_model never panics and never wraps its subtraction below zero,
\* and a call appends one model and leaves materials and objects as they
\* were.
C22_AddModelNeverUnderflows ==
    /\ [](last = "add_model" => (~panicked /\ ret # UsizeMax))
    /\ [][last' = "add_model" =>
            /\ Len(scene'.models) = Len(scene.models) + 1
            /\ SubSeq(scene'.models, 1, Len(scene.models)) = scene.models
            /\ scene'.materials = scene.materials
            /\ scene'.objects = scene.objects]_vars

(* ---- C23 ---- *)
StateConfigured == state # <<>> /\ state[1].is_surface_configured

\* C23: the configured flag of the Renderer and of the State is false
\* after construction; no operation takes it from true to false; the step
\* that takes it from false to true issued a surface configure (update_size
\* for the Renderer, an accepted resize for the State); and a render call
\* made once the flag is true always goes on to acquire an image.
C23_ConfiguredFlagMonotonic ==
    /\ []((last = "new" => ~renderer.is_surface_configured)
          /\ (last = "resumed" => ~StateConfigured)
          /\ ((last = "render" /\ renderer.is_surface_configured) =>
                 Count(ops, "get_current_texture") = 1))
    /\ [][/\ renderer.is_surface_configured => renderer'.is_surface_configured
          /\ StateConfigured => StateConfigured'
          /\ (~renderer.is_surface_configured /\ renderer'.is_surface_configured) =>
                (last' = "update_size" /\ Count(ops', "configure") = 1)
          /\ (~StateConfigured /\ StateConfigured') =>
                (Count(ops', "configure") = 1 /\ WindowPositive')
          /\ (StateConfigured /\ last' = "window_event" /\ RenderCalled(ops')) =>
                Count(ops', "get_current_texture") = 1]_vars

\* Both flags are set, and a failed frame of the State was just followed
\* by a rejected resize.
C23_Witness ==
    /\ renderer.is_surface_configured
    /\ StateConfigured
    /\ LostHandled
    /\ ~WindowPositive
    /\ Count(ops, "configure") = 0

====
